---- MODULE Spec2Model ----
(***************************************************************************)
(* Model of cmd/fleet/handleAck.go: the acknowledgment handler of the      *)
(* fleet server.  A request authenticates an agent (reading its record),   *)
(* classifies the events of the batch, and reconciles the policy           *)
(* acknowledgments into one partial update of the agent record.            *)
(*                                                                         *)
(* Strings are sequences of lexemes: the word "policy", the separator ":", *)
(* decimal digits, signs, a letter that is no digit, and stand-ins for     *)
(* UUID texts ("P", "Q" canonical texts of two UUIDs, "{P}" the braced     *)
(* text of the first one, which gofrs/uuid accepts as well).               *)
(***************************************************************************)
EXTENDS Integers, Sequences, FiniteSets, TLC

\* ------------------------------------------------------------------ bounds
\* Largest revision / coordinator index written into a candidate identifier.
MaxIdx == 1
\* Longest batch of the single-request specification.
MaxEvents == 2
\* Longest batch of a request of the concurrent specification.
MaxConcEvents == 1

\* ----------------------------------------------------------------- strings
Digits == <<"0", "1", "2", "3", "4", "5", "6", "7", "8", "9">>

DigitSet == {Digits[k] : k \in 1..Len(Digits)}

DigitVal(d) == (CHOOSE k \in 1..Len(Digits) : Digits[k] = d) - 1

\* The texts uuid.FromString accepts, among the lexemes of the model.
ValidUUIDs == {"P", "Q", "{P}"}

\* strings.HasPrefix(s, prefix)
HasPrefix(s, prefix) ==
    /\ Len(s) >= Len(prefix)
    /\ SubSeq(s, 1, Len(prefix)) = prefix

\* strings.Split(s, ":"): the maximal runs between separators, empty runs kept.
RECURSIVE SplitFrom(_, _, _)
SplitFrom(s, k, cur) ==
    IF k > Len(s) THEN <<cur>>
    ELSE IF s[k] = ":" THEN <<cur>> \o SplitFrom(s, k + 1, <<>>)
    ELSE SplitFrom(s, k + 1, Append(cur, s[k]))

Split(s) == SplitFrom(s, 1, <<>>)

\* uuid.FromString(seg) returns no error
UUIDFromStringOk(seg) == Len(seg) = 1 /\ seg[1] \in ValidUUIDs

RECURSIVE DecimalValue(_)
DecimalValue(ds) ==
    IF Len(ds) = 0 THEN 0
    ELSE 10 * DecimalValue(SubSeq(ds, 1, Len(ds) - 1)) + DigitVal(ds[Len(ds)])

\* strconv.Atoi: an optional sign, then one or more decimal digits.
AtoiBody(seg) ==
    IF Len(seg) > 0 /\ seg[1] \in {"+", "-"} THEN SubSeq(seg, 2, Len(seg)) ELSE seg

AtoiOk(seg) ==
    /\ Len(AtoiBody(seg)) > 0
    /\ \A k \in 1..Len(AtoiBody(seg)) : AtoiBody(seg)[k] \in DigitSet

Atoi(seg) ==
    IF Len(seg) > 0 /\ seg[1] = "-" THEN 0 - DecimalValue(AtoiBody(seg))
    ELSE DecimalValue(AtoiBody(seg))

\* policyAction{}, false
NoPolicyAction == [ok |-> FALSE, policyId |-> <<>>, revIdx |-> 0, coordIdx |-> 0]

\* Mutant: only too few segments are refused (len(split) < 4).
parsePolicyAction_atLeast4(actionId) ==
    LET split == Split(actionId) IN
    IF Len(split) < 4 THEN NoPolicyAction
    ELSE IF split[1] # <<"policy">> THEN NoPolicyAction
    ELSE IF ~UUIDFromStringOk(split[2]) THEN NoPolicyAction
    ELSE IF ~AtoiOk(split[3]) THEN NoPolicyAction
    ELSE IF ~AtoiOk(split[4]) THEN NoPolicyAction
    ELSE [ok |-> TRUE, policyId |-> split[2],
          revIdx |-> Atoi(split[3]), coordIdx |-> Atoi(split[4])]

parsePolicyAction(actionId) ==
    LET split == Split(actionId) IN
    IF Len(split) # 4 THEN NoPolicyAction
    ELSE IF split[1] # <<"policy">> THEN NoPolicyAction
    ELSE IF ~UUIDFromStringOk(split[2]) THEN NoPolicyAction
    ELSE IF ~AtoiOk(split[3]) THEN NoPolicyAction
    ELSE IF ~AtoiOk(split[4]) THEN NoPolicyAction
    ELSE [ok |-> TRUE, policyId |-> split[2],
          revIdx |-> Atoi(split[3]), coordIdx |-> Atoi(split[4])]

\* --------------------------------------------------------- identifiers used
Numeral(n) == <<Digits[n + 1]>>

\* "policy:<p>:<r>:<c>"
PolicyActionId(p, r, c) ==
    <<"policy", ":", p, ":">> \o Numeral(r) \o <<":">> \o Numeral(c)

\* A "policy:" identifier whose revision is no integer.
BadPolicyId == <<"policy", ":", "P", ":", "x", ":", "0">>

\* Ordinary action identifiers: one the cache holds, one only the store holds,
\* one neither holds.
CachedId == <<"x", "1">>
StoredId == <<"x", "2">>
MissingId == <<"x", "3">>

ActionType(id) == IF id = CachedId THEN "UPGRADE" ELSE "UNENROLL"

ActionTypes == {"UPGRADE", "UNENROLL", ""}

\* gCache: the process-wide action cache, populated elsewhere.
gCache == {CachedId}

\* The action documents of the persistent store.
SavedActions == {CachedId, StoredId}

AgentIds == {"a1", "a2"}

Event(agentId, actionId) == [AgentId |-> agentId, ActionId |-> actionId]

Indices == 0..MaxIdx

Pairs == Indices \X Indices

\* (r1, c1) is lexicographically less than (r2, c2)
PairLess(p, q) == p[1] < q[1] \/ (p[1] = q[1] /\ p[2] < q[2])

PairLeq(p, q) == p = q \/ PairLess(p, q)

\* ------------------------------------------------------------------- state
Requests == {1, 2}

\* http.StatusBadRequest
StatusBadRequest == 400

VARIABLES
    agents,      \* the agent documents of the store: id -> record
    nWrites,     \* number of updates the store has applied
    lastWriter,  \* the request whose update the store applied last (0: none)
    clock,       \* the wall clock time.Now() reads
    request,     \* per request: the URL id, the credentials, the body
    rq           \* per request: the locals of the handler and what it has done

vars == <<agents, nWrites, lastWriter, clock, request, rq>>

\* the zero model.Agent
NoAgent ==
    [Id |-> "", PolicyId |-> <<>>, PolicyRevisionIdx |-> 0, PolicyCoordinatorIdx |-> 0]

\* m := map[string][]Action{}
EmptyMap == [t \in ActionTypes |-> <<>>]

NewRequest(pc0) ==
    [pc |-> pc0, agent |-> NoAgent, readSeq |-> 0, i |-> 1,
     policyAcks |-> <<>>, m |-> EmptyMap, probes |-> <<>>, reads |-> <<>>,
     found |-> FALSE, currRev |-> 0, currCoord |-> 0, updates |-> <<>>,
     calls |-> 0, err |-> "nil", readErr |-> "nil", updErr |-> "nil",
     cancelled |-> FALSE, logged |-> FALSE, httpError |-> 0, response |-> ""]

Input(id, auth, body, events) ==
    [id |-> id, auth |-> auth, body |-> body, events |-> events]

NoInput == Input("", FALSE, "ok", <<>>)

\* Sequences over S of length at most n.
RECURSIVE SeqsUpTo(_, _)
SeqsUpTo(S, n) ==
    IF n = 0 THEN {<<>>}
    ELSE LET shorter == SeqsUpTo(S, n - 1) IN
         shorter \cup {Append(s, e) : s \in {t \in shorter : Len(t) = n - 1}, e \in S}

\* Requests that never reach the event loop: bad credentials, a body that
\* cannot be read, a body that is no JSON.
FailingInputs(id) ==
    {Input(id, FALSE, "ok", <<>>), Input(id, TRUE, "ioerr", <<>>),
     Input(id, TRUE, "badjson", <<>>)}

PolicyCandidates == {Event("", PolicyActionId("P", p[1], p[2])) : p \in Pairs}

\* The events of the single-request specification, sent by agent a1.
OneEvents ==
    PolicyCandidates \cup
    {Event("", PolicyActionId("Q", MaxIdx, MaxIdx)),
     Event("", PolicyActionId("{P}", MaxIdx, MaxIdx)),
     Event("", BadPolicyId),
     Event("a1", CachedId), Event("", StoredId), Event("", MissingId),
     Event("a2", CachedId),
     Event("a2", PolicyActionId("P", MaxIdx, MaxIdx))}

OneInputs ==
    FailingInputs("a1") \cup
    {Input("a1", TRUE, "ok", evs) : evs \in SeqsUpTo(OneEvents, MaxEvents)}

\* The policy candidates of the concurrent specification.
ConcCandidates ==
    {Event("", PolicyActionId("P", p[1], p[2])) :
        p \in {<<0, 0>>, <<0, 1>>, <<1, 0>>, <<MaxIdx, MaxIdx>>}}

\* The batches of the concurrent specification: policy candidates alone, or one
\* event of each other kind (own agent id spelled out, foreign policy, cache
\* hit, unknown action, foreign agent id for a1), or a candidate followed by
\* an event under a foreign agent id.
ConcBatches ==
    SeqsUpTo(ConcCandidates, MaxConcEvents) \cup
    {<<Event("a1", PolicyActionId("P", MaxIdx, 0))>>,
     <<Event("", PolicyActionId("Q", MaxIdx, MaxIdx))>>,
     <<Event("", CachedId)>>, <<Event("", MissingId)>>, <<Event("a2", CachedId)>>,
     <<Event("", PolicyActionId("P", MaxIdx, MaxIdx)), Event("a2", CachedId)>>}

ConcInputs(id) ==
    FailingInputs(id) \cup {Input(id, TRUE, "ok", evs) : evs \in ConcBatches}

\* The positions agent a1 starts from in the concurrent specification.
ConcPairs == {<<0, 0>>, <<MaxIdx, 0>>}

AgentDoc(policyId, pair) ==
    [PolicyId |-> policyId, PolicyRevisionIdx |-> pair[1],
     PolicyCoordinatorIdx |-> pair[2], UpdatedAt |-> 0]

InitStore(pairs) ==
    /\ \E pair \in pairs :
         agents = [a \in AgentIds |->
                     IF a = "a1" THEN AgentDoc(<<"P">>, pair)
                     ELSE AgentDoc(<<"Q">>, <<0, 0>>)]
    /\ nWrites = 0
    /\ lastWriter = 0
    /\ clock = 0

\* What a request for agent a2 (bound to policy Q) sends in the concurrent
\* specification: a candidate of its own policy, one of another policy, one
\* event of a foreign agent.
OtherAgentInputs ==
    {Input("a2", TRUE, "ok", evs) :
        evs \in {<<Event("", PolicyActionId("Q", MaxIdx, MaxIdx))>>,
                 <<Event("", PolicyActionId("P", MaxIdx, MaxIdx))>>,
                 <<Event("a1", CachedId)>>}}

\* Two requests in flight, the first for agent a1, the second for either agent.
Init ==
    /\ InitStore(ConcPairs)
    /\ \E in1 \in ConcInputs("a1"), in2 \in ConcInputs("a1") \cup OtherAgentInputs :
         request = [r \in Requests |-> IF r = 1 THEN in1 ELSE in2]
    /\ rq = [r \in Requests |-> NewRequest("auth")]

\* The positions agent a1 starts from in the single-request specification.
OnePairs == {0, MaxIdx} \X {0, MaxIdx}

\* One request in flight, for agent a1.
InitOne ==
    /\ InitStore(OnePairs)
    /\ \E in1 \in OneInputs :
         request = [r \in Requests |-> IF r = 1 THEN in1 ELSE NoInput]
    /\ rq = [r \in Requests |-> NewRequest(IF r = 1 THEN "auth" ELSE "idle")]

Pair(rec) == <<rec.PolicyRevisionIdx, rec.PolicyCoordinatorIdx>>

Events(r) == request[r].events

UnchangedStore == UNCHANGED <<agents, nWrites, lastWriter, clock>>

\* ------------------------------------------------------------ collaborators
\* authAgent: the agent document of the authenticated agent, as stored now.
authAgent(id) ==
    [Id |-> id, PolicyId |-> agents[id].PolicyId,
     PolicyRevisionIdx |-> agents[id].PolicyRevisionIdx,
     PolicyCoordinatorIdx |-> agents[id].PolicyCoordinatorIdx]

\* gCache.GetAction(id): found or not
GetActionOk(id) == id \in gCache

\* sv.Read(ctx, AGENT_ACTION_SAVED_OBJECT_TYPE, id, &action): the errors it may
\* return ("nil": none).  A cancelled context may make it return Canceled.
ReadOutcomes(r, id) ==
    (IF id \in SavedActions THEN {"nil"} ELSE {"ErrNotFound"})
        \cup {"ErrStore"}
        \cup (IF rq[r].cancelled THEN {"Canceled"} ELSE {})

\* bulker.MUpdate(ctx, updates, WithRefresh()): the errors it may return.
UpdateOutcomes(r) ==
    {"nil", "ErrStore"} \cup (IF rq[r].cancelled THEN {"Canceled"} ELSE {})

\* The store applying one partial-document update: the fields of the body
\* replace those of the document, whatever the document holds; no version is
\* compared.
ApplyUpdate(store, op) ==
    [store EXCEPT ![op.Id] =
        [@ EXCEPT !.PolicyRevisionIdx = op.Body.PolicyRevisionIdx,
                  !.PolicyCoordinatorIdx = op.Body.PolicyCoordinatorIdx,
                  !.UpdatedAt = op.Body.UpdatedAt]]

RECURSIVE ApplyUpdates(_, _)
ApplyUpdates(store, ops) ==
    IF ops = <<>> THEN store
    ELSE ApplyUpdates(ApplyUpdate(store, Head(ops)), Tail(ops))

\* ------------------------------------------------------------- _handleAcks
Fail(r, e) == rq' = [rq EXCEPT ![r].err = e, ![r].pc = "handler"]

\* agent, err := authAgent(r, id, bulker)
Authenticate(r) ==
    /\ rq[r].pc = "auth"
    /\ IF request[r].auth
       THEN rq' = [rq EXCEPT ![r].agent = authAgent(request[r].id),
                             ![r].readSeq = nWrites,
                             ![r].pc = "body"]
       ELSE Fail(r, "ErrAuth")
    /\ UnchangedStore
    /\ UNCHANGED request

\* ioutil.ReadAll(r.Body), json.Unmarshal(raw, &req)
DecodeBody(r) ==
    /\ rq[r].pc = "body"
    /\ CASE request[r].body = "ioerr" -> Fail(r, "ErrReadBody")
         [] request[r].body = "badjson" -> Fail(r, "ErrUnmarshal")
         [] OTHER -> rq' = [rq EXCEPT ![r].pc = "events"]
    /\ UnchangedStore
    /\ UNCHANGED request

\* -------------------------------------------------------- _handleAckEvents
InLoop(r) == rq[r].pc = "events" /\ rq[r].i <= Len(Events(r))

CurrentEvent(r) == Events(r)[rq[r].i]

AgentIdMismatch(ev, agent) == ev.AgentId # "" /\ ev.AgentId # agent.Id

\* Mutant: an event is a policy acknowledgment only if its identifier parses.
IsPolicyAck_parsed(ev) == parsePolicyAction(ev.ActionId).ok

\* strings.HasPrefix(ev.ActionId, "policy:")
IsPolicyAck(ev) == HasPrefix(ev.ActionId, <<"policy", ":">>)

\* Mutant: the "policy:" prefix is tested before the agent id.
EventKind_policyFirst(ev, agent) ==
    IF IsPolicyAck(ev) THEN "policy"
    ELSE IF AgentIdMismatch(ev, agent) THEN "mismatch"
    ELSE "action"

\* The branch the loop body takes for an event: the agent check comes first,
\* then the "policy:" prefix, then the resolution of the action.
EventKind(ev, agent) ==
    IF AgentIdMismatch(ev, agent) THEN "mismatch"
    ELSE IF IsPolicyAck(ev) THEN "policy"
    ELSE "action"

\* m[action.Type] = append(m[action.Type], action)
Grouped(m, id) == [m EXCEPT ![ActionType(id)] = Append(@, id)]

\* Mutant: the mismatch leaves the loop (break) instead of the function, so the
\* acknowledgments gathered so far are still reconciled.
EventMismatch_break(r) ==
    /\ InLoop(r)
    /\ EventKind(CurrentEvent(r), rq[r].agent) = "mismatch"
    /\ rq' = [rq EXCEPT ![r].err = "ErrEventAgentIdMismatch",
                        ![r].pc = IF rq[r].policyAcks # <<>> THEN "reconcile"
                                  ELSE "handler"]
    /\ UnchangedStore
    /\ UNCHANGED request

\* return ErrEventAgentIdMismatch
EventMismatch(r) ==
    /\ InLoop(r)
    /\ EventKind(CurrentEvent(r), rq[r].agent) = "mismatch"
    /\ Fail(r, "ErrEventAgentIdMismatch")
    /\ UnchangedStore
    /\ UNCHANGED request

\* policyAcks = append(policyAcks, ev.ActionId); continue
EventPolicyAck(r) ==
    /\ InLoop(r)
    /\ EventKind(CurrentEvent(r), rq[r].agent) = "policy"
    /\ rq' = [rq EXCEPT ![r].policyAcks = Append(@, CurrentEvent(r).ActionId),
                        ![r].i = @ + 1]
    /\ UnchangedStore
    /\ UNCHANGED request

\* Mutant: the store is read even when the cache holds the action.
EventCacheHit_reads(r) ==
    /\ InLoop(r)
    /\ EventKind(CurrentEvent(r), rq[r].agent) = "action"
    /\ GetActionOk(CurrentEvent(r).ActionId)
    /\ rq' = [rq EXCEPT ![r].probes = Append(@, CurrentEvent(r).ActionId),
                        ![r].reads = Append(@, CurrentEvent(r).ActionId),
                        ![r].m = Grouped(@, CurrentEvent(r).ActionId),
                        ![r].i = @ + 1]
    /\ UnchangedStore
    /\ UNCHANGED request

\* Mutant: an action of a type the handler does not act on is an error.
EventCacheHit_rejects(r) ==
    /\ InLoop(r)
    /\ EventKind(CurrentEvent(r), rq[r].agent) = "action"
    /\ GetActionOk(CurrentEvent(r).ActionId)
    /\ rq' = [rq EXCEPT ![r].probes = Append(@, CurrentEvent(r).ActionId),
                        ![r].err = "ErrUnsupported",
                        ![r].pc = "handler"]
    /\ UnchangedStore
    /\ UNCHANGED request

\* action, ok := gCache.GetAction(ev.ActionId), ok
EventCacheHit(r) ==
    /\ InLoop(r)
    /\ EventKind(CurrentEvent(r), rq[r].agent) = "action"
    /\ GetActionOk(CurrentEvent(r).ActionId)
    /\ rq' = [rq EXCEPT ![r].probes = Append(@, CurrentEvent(r).ActionId),
                        ![r].m = Grouped(@, CurrentEvent(r).ActionId),
                        ![r].i = @ + 1]
    /\ UnchangedStore
    /\ UNCHANGED request

\* action, ok := gCache.GetAction(ev.ActionId), !ok, then sv.Read
EventStoreRead(r) ==
    /\ InLoop(r)
    /\ EventKind(CurrentEvent(r), rq[r].agent) = "action"
    /\ ~GetActionOk(CurrentEvent(r).ActionId)
    /\ \E out \in ReadOutcomes(r, CurrentEvent(r).ActionId) :
         IF out = "nil"
         THEN rq' = [rq EXCEPT ![r].probes = Append(@, CurrentEvent(r).ActionId),
                               ![r].reads = Append(@, CurrentEvent(r).ActionId),
                               ![r].m = Grouped(@, CurrentEvent(r).ActionId),
                               ![r].i = @ + 1]
         ELSE rq' = [rq EXCEPT ![r].probes = Append(@, CurrentEvent(r).ActionId),
                               ![r].reads = Append(@, CurrentEvent(r).ActionId),
                               ![r].readErr = out,
                               ![r].err = out,
                               ![r].pc = "handler"]
    /\ UnchangedStore
    /\ UNCHANGED request

\* if policyAcks != nil { _handlePolicyChange(...) }; return nil
EventsDone(r) ==
    /\ rq[r].pc = "events"
    /\ rq[r].i > Len(Events(r))
    /\ rq' = [rq EXCEPT ![r].pc = IF rq[r].policyAcks # <<>> THEN "reconcile"
                                  ELSE "respond"]
    /\ UnchangedStore
    /\ UNCHANGED request

\* ----------------------------------------------------- _handlePolicyChange
\* Mutant: a candidate equal to the incumbent beats it.
Beats_ties(action, agent, rev, coord) ==
    /\ action.ok
    /\ action.policyId = agent.PolicyId
    /\ \/ action.revIdx > rev
       \/ (action.revIdx = rev /\ action.coordIdx >= coord)

\* Mutant: the policy id of the candidate is not compared.
Beats_anyPolicy(action, agent, rev, coord) ==
    /\ action.ok
    /\ \/ action.revIdx > rev
       \/ (action.revIdx = rev /\ action.coordIdx > coord)

\* Mutant: only the revision index is compared.
Beats_revOnly(action, agent, rev, coord) ==
    /\ action.ok
    /\ action.policyId = agent.PolicyId
    /\ action.revIdx > rev

\* ok && action.policyId == agent.PolicyId && (action.revIdx > currRev ||
\*     (action.revIdx == currRev && action.coordIdx > currCoord))
Beats(action, agent, rev, coord) ==
    /\ action.ok
    /\ action.policyId = agent.PolicyId
    /\ \/ action.revIdx > rev
       \/ (action.revIdx = rev /\ action.coordIdx > coord)

\* for _, a := range actionIds { ... }, from the k-th identifier on
RECURSIVE Scan(_, _, _, _)
Scan(agent, actionIds, k, w) ==
    IF k > Len(actionIds) THEN w
    ELSE LET action == parsePolicyAction(actionIds[k]) IN
         IF Beats(action, agent, w.currRev, w.currCoord)
         THEN Scan(agent, actionIds, k + 1,
                   [found |-> TRUE, currRev |-> action.revIdx,
                    currCoord |-> action.coordIdx])
         ELSE Scan(agent, actionIds, k + 1, w)

\* Mutant: the scan stops at the first candidate that beats the agent's pair.
RECURSIVE ScanFirst(_, _, _)
ScanFirst(agent, actionIds, k) ==
    IF k > Len(actionIds)
    THEN [found |-> FALSE, currRev |-> agent.PolicyRevisionIdx,
          currCoord |-> agent.PolicyCoordinatorIdx]
    ELSE LET action == parsePolicyAction(actionIds[k]) IN
         IF Beats(action, agent, agent.PolicyRevisionIdx, agent.PolicyCoordinatorIdx)
         THEN [found |-> TRUE, currRev |-> action.revIdx, currCoord |-> action.coordIdx]
         ELSE ScanFirst(agent, actionIds, k + 1)

PickWinner_first(agent, actionIds) == ScanFirst(agent, actionIds, 1)

\* found, currRev, currCoord after the loop
PickWinner(agent, actionIds) ==
    Scan(agent, actionIds, 1,
         [found |-> FALSE, currRev |-> agent.PolicyRevisionIdx,
          currCoord |-> agent.PolicyCoordinatorIdx])

\* Mutant: the body takes the coordinator index from the agent snapshot.
BulkOp_keepsCoord(agent, rev, coord, updatedAt) ==
    [Id |-> agent.Id, Index |-> "FleetAgents",
     Body |-> [PolicyRevisionIdx |-> rev,
               PolicyCoordinatorIdx |-> agent.PolicyCoordinatorIdx,
               UpdatedAt |-> updatedAt]]

\* Mutant: the update is addressed to a fixed document.
BulkOp_fixedId(agent, rev, coord, updatedAt) ==
    [Id |-> "a1", Index |-> "FleetAgents",
     Body |-> [PolicyRevisionIdx |-> rev, PolicyCoordinatorIdx |-> coord,
               UpdatedAt |-> updatedAt]]

\* bulk.BulkOp{Id: agent.Id, Body: {"doc": fields}, Index: dl.FleetAgents}
BulkOp(agent, rev, coord, updatedAt) ==
    [Id |-> agent.Id, Index |-> "FleetAgents",
     Body |-> [PolicyRevisionIdx |-> rev, PolicyCoordinatorIdx |-> coord,
               UpdatedAt |-> updatedAt]]

\* Mutant: an acknowledgment that does not parse is an error of the request.
PolicyChange_strict(r) ==
    /\ rq[r].pc = "reconcile"
    /\ LET w == PickWinner(rq[r].agent, rq[r].policyAcks) IN
       IF \E k \in 1..Len(rq[r].policyAcks) : ~parsePolicyAction(rq[r].policyAcks[k]).ok
       THEN /\ clock' = clock
            /\ Fail(r, "ErrParse")
       ELSE IF w.found
       THEN /\ clock' = clock + 1
            /\ rq' = [rq EXCEPT ![r].found = TRUE,
                                ![r].currRev = w.currRev,
                                ![r].currCoord = w.currCoord,
                                ![r].updates = <<BulkOp(rq[r].agent, w.currRev,
                                                        w.currCoord, clock + 1)>>,
                                ![r].pc = "update"]
       ELSE /\ clock' = clock
            /\ rq' = [rq EXCEPT ![r].found = FALSE,
                                ![r].currRev = w.currRev,
                                ![r].currCoord = w.currCoord,
                                ![r].pc = "respond"]
    /\ UNCHANGED <<agents, nWrites, lastWriter, request>>

\* The scan and, if a candidate won, the building of the update.
PolicyChange(r) ==
    /\ rq[r].pc = "reconcile"
    /\ LET w == PickWinner(rq[r].agent, rq[r].policyAcks) IN
       IF w.found
       THEN /\ clock' = clock + 1
            /\ rq' = [rq EXCEPT ![r].found = TRUE,
                                ![r].currRev = w.currRev,
                                ![r].currCoord = w.currCoord,
                                ![r].updates = <<BulkOp(rq[r].agent, w.currRev,
                                                        w.currCoord, clock + 1)>>,
                                ![r].pc = "update"]
       ELSE /\ clock' = clock
            /\ rq' = [rq EXCEPT ![r].found = FALSE,
                                ![r].currRev = w.currRev,
                                ![r].currCoord = w.currCoord,
                                ![r].pc = "respond"]
    /\ UNCHANGED <<agents, nWrites, lastWriter, request>>

\* Mutant: the update is skipped, as a success, when the document already
\* holds a pair that is not less than the one to write.
MUpdate_monotonic(r) ==
    /\ rq[r].pc = "update"
    /\ \E out \in UpdateOutcomes(r) :
         IF out = "nil"
         THEN /\ agents' =
                   IF PairLess(Pair(agents[rq[r].agent.Id]),
                               <<rq[r].currRev, rq[r].currCoord>>)
                   THEN ApplyUpdates(agents, rq[r].updates)
                   ELSE agents
              /\ nWrites' = nWrites + 1
              /\ lastWriter' = r
              /\ rq' = [rq EXCEPT ![r].calls = @ + 1, ![r].pc = "respond"]
         ELSE /\ UNCHANGED <<agents, nWrites, lastWriter>>
              /\ rq' = [rq EXCEPT ![r].calls = @ + 1,
                                  ![r].updErr = out,
                                  ![r].err = out,
                                  ![r].pc = "handler"]
    /\ UNCHANGED <<clock, request>>

\* Mutant: a failed update is tried again instead of being returned.
MUpdate_retry(r) ==
    /\ rq[r].pc = "update"
    /\ rq[r].calls < 2
    /\ \E out \in UpdateOutcomes(r) :
         IF out = "nil"
         THEN /\ agents' = ApplyUpdates(agents, rq[r].updates)
              /\ nWrites' = nWrites + 1
              /\ lastWriter' = r
              /\ rq' = [rq EXCEPT ![r].calls = @ + 1, ![r].pc = "respond"]
         ELSE /\ UNCHANGED <<agents, nWrites, lastWriter>>
              /\ rq' = [rq EXCEPT ![r].calls = @ + 1, ![r].updErr = out]
    /\ UNCHANGED <<clock, request>>

\* err = bulker.MUpdate(ctx, updates, bulk.WithRefresh()); if err != nil { return err }
MUpdate(r) ==
    /\ rq[r].pc = "update"
    /\ \E out \in UpdateOutcomes(r) :
         IF out = "nil"
         THEN /\ agents' = ApplyUpdates(agents, rq[r].updates)
              /\ nWrites' = nWrites + 1
              /\ lastWriter' = r
              /\ rq' = [rq EXCEPT ![r].calls = @ + 1, ![r].pc = "respond"]
         ELSE /\ UNCHANGED <<agents, nWrites, lastWriter>>
              /\ rq' = [rq EXCEPT ![r].calls = @ + 1,
                                  ![r].updErr = out,
                                  ![r].err = out,
                                  ![r].pc = "handler"]
    /\ UNCHANGED <<clock, request>>

\* ----------------------------------------------------------------- replies
\* resp := AckResponse{"acks"}; json.Marshal; w.Write(data)
WriteResponse(r) ==
    /\ rq[r].pc = "respond"
    /\ \/ rq' = [rq EXCEPT ![r].response = "acks", ![r].pc = "handler"]
       \/ Fail(r, "ErrWrite")
    /\ UnchangedStore
    /\ UNCHANGED request

\* Mutant: every error is logged, connection drops included.
handleAcks_logsAll(r) ==
    /\ rq[r].pc = "handler"
    /\ IF rq[r].err # "nil"
       THEN rq' = [rq EXCEPT ![r].logged = TRUE,
                             ![r].httpError = StatusBadRequest,
                             ![r].pc = "done"]
       ELSE rq' = [rq EXCEPT ![r].pc = "done"]
    /\ UnchangedStore
    /\ UNCHANGED request

\* handleAcks: if err != nil { log unless context.Canceled; http.Error(w, .., 400) }
handleAcks(r) ==
    /\ rq[r].pc = "handler"
    /\ IF rq[r].err # "nil"
       THEN rq' = [rq EXCEPT ![r].logged = (rq[r].err # "Canceled"),
                             ![r].httpError = StatusBadRequest,
                             ![r].pc = "done"]
       ELSE rq' = [rq EXCEPT ![r].pc = "done"]
    /\ UnchangedStore
    /\ UNCHANGED request

\* A store call of the request is about to be made or is in flight.
StoreCallPending(r) ==
    \/ rq[r].pc = "update"
    \/ /\ InLoop(r)
       /\ EventKind(CurrentEvent(r), rq[r].agent) = "action"
       /\ ~GetActionOk(CurrentEvent(r).ActionId)

\* The client drops the connection: the request's context is cancelled.  Only
\* the store calls read the context, so the cancellation is modelled where one
\* is pending.
Cancel(r) ==
    /\ StoreCallPending(r)
    /\ ~rq[r].cancelled
    /\ rq' = [rq EXCEPT ![r].cancelled = TRUE]
    /\ UnchangedStore
    /\ UNCHANGED request

Next ==
    \E r \in Requests :
        \/ Authenticate(r)
        \/ DecodeBody(r)
        \/ EventMismatch(r)
        \/ EventPolicyAck(r)
        \/ EventCacheHit(r)
        \/ EventStoreRead(r)
        \/ EventsDone(r)
        \/ PolicyChange(r)
        \/ MUpdate(r)
        \/ WriteResponse(r)
        \/ handleAcks(r)
        \/ Cancel(r)

\* Two concurrent requests.
Spec == Init /\ [][Next]_vars

\* One request.
SpecOne == InitOne /\ [][Next]_vars

\* ------------------------------------------------------------- properties
Done(r) == rq[r].pc = "done"

\* The request got as far as the event loop.
Decoded(r) == rq[r].pc # "idle" /\ request[r].auth /\ request[r].body = "ok"

\* The event loop ran over the whole batch without returning.
Classified(r) ==
    /\ Decoded(r)
    /\ rq[r].pc \in {"reconcile", "update", "respond", "handler", "done"}
    /\ rq[r].i > Len(Events(r))

\* _handleAckEvents has returned (with or without an error).
Returned(r) == Decoded(r) /\ rq[r].pc \in {"respond", "handler", "done"}

\* The pair the request read for its agent.
ReadPair(r) == Pair(rq[r].agent)

\* The pairs of the candidates of the batch that parse and carry the policy id
\* of the agent the request read.
Eligible(r) ==
    {<<a.revIdx, a.coordIdx>> :
        a \in {c \in {parsePolicyAction(Events(r)[k].ActionId) : k \in 1..Len(Events(r))} :
                 c.ok /\ c.policyId = rq[r].agent.PolicyId}}

\* The pairs of the candidates that carry another policy id.
Foreign(r) ==
    {<<a.revIdx, a.coordIdx>> :
        a \in {c \in {parsePolicyAction(Events(r)[k].ActionId) : k \in 1..Len(Events(r))} :
                 c.ok /\ c.policyId # rq[r].agent.PolicyId}}

Advancing(r) == {p \in Eligible(r) : PairLess(ReadPair(r), p)}

LexMax(S) == CHOOSE p \in S : \A q \in S : PairLeq(q, p)

\* The pair of the update the request built.
Written(r) ==
    <<rq[r].updates[1].Body.PolicyRevisionIdx, rq[r].updates[1].Body.PolicyCoordinatorIdx>>

\* The store applied the request's update.
Applied(r) == rq[r].calls > 0 /\ rq[r].updErr = "nil"

\* C1: no step moves the stored pair of any agent backward.
C1_NeverBackward ==
    [][\A a \in AgentIds : PairLeq(Pair(agents[a]), Pair(agents'[a]))]_vars

\* C2: two requests for one agent that both read before any update was applied
\* and whose updates were both applied leave the pair of the one applied last,
\* and the store has applied both.
C2_LastWriteWins ==
    \A r1 \in Requests, r2 \in Requests :
        (/\ r1 # r2
         /\ Done(r1) /\ Done(r2)
         /\ request[r1].id = request[r2].id
         /\ Applied(r1) /\ Applied(r2)
         /\ rq[r1].readSeq = 0 /\ rq[r2].readSeq = 0
         /\ lastWriter = r2)
        => /\ nWrites = 2
           /\ Pair(agents[request[r2].id]) = LexMax(Advancing(r2))

\* C2 witness: the update applied last carries the smaller pair.
C2_Witness ==
    /\ Done(1) /\ Done(2)
    /\ request[1].id = request[2].id
    /\ Applied(1) /\ Applied(2)
    /\ rq[1].readSeq = 0 /\ rq[2].readSeq = 0
    /\ lastWriter = 2
    /\ PairLess(LexMax(Advancing(2)), LexMax(Advancing(1)))
    /\ Pair(agents[request[2].id]) = LexMax(Advancing(2))

\* C3: the update a request builds, and the pair the store holds once it is
\* applied, is the lexicographic maximum of the eligible candidates of the batch.
C3_WritesMaximum ==
    \A r \in Requests :
        /\ rq[r].updates # <<>> =>
             /\ Len(rq[r].updates) = 1
             /\ rq[r].updates[1].Id = rq[r].agent.Id
             /\ Eligible(r) # {}
             /\ Written(r) = LexMax(Eligible(r))
        /\ Applied(r) => Pair(agents[rq[r].agent.Id]) = LexMax(Eligible(r))

\* C3 witness: the first candidate advances the agent but is not the maximum;
\* a later one is, and it was applied.
C3_Witness ==
    /\ Applied(1)
    /\ Len(Events(1)) >= 2
    /\ LET first == parsePolicyAction(Events(1)[1].ActionId)
       IN  /\ first.ok
           /\ <<first.revIdx, first.coordIdx>> \in Advancing(1)
           /\ PairLess(<<first.revIdx, first.coordIdx>>, LexMax(Eligible(1)))
    /\ Pair(agents["a1"]) = LexMax(Eligible(1))

C5_ForeignIgnored ==
    \A r \in Requests :
        (Classified(r) /\ Returned(r) /\ rq[r].policyAcks # <<>>) =>
            /\ rq[r].found <=> Advancing(r) # {}
            /\ rq[r].found => <<rq[r].currRev, rq[r].currCoord>> \in Eligible(r)
            /\ ~rq[r].found => rq[r].updates = <<>> /\ rq[r].calls = 0

\* C5 witness: a foreign candidate greater than the pair read and than every
\* eligible candidate; the eligible maximum is what the store holds.
C5_Witness ==
    /\ Applied(1)
    /\ \E f \in Foreign(1) :
         /\ PairLess(ReadPair(1), f)
         /\ \A p \in Eligible(1) : PairLess(p, f)
    /\ Pair(agents["a1"]) = LexMax(Eligible(1))

\* The first event of the batch whose agent id is set and is not the agent's.
FirstMismatch(r) ==
    CHOOSE k \in 1..Len(Events(r)) :
        /\ AgentIdMismatch(Events(r)[k], rq[r].agent)
        /\ \A j \in 1..(k - 1) : ~AgentIdMismatch(Events(r)[j], rq[r].agent)

HasMismatch(r) ==
    \E k \in 1..Len(Events(r)) : AgentIdMismatch(Events(r)[k], rq[r].agent)

\* C6 as claimed: a batch holding a mismatching event ends in
\* ErrEventAgentIdMismatch, whatever its other events are.
C6_AlwaysMismatchError ==
    \A r \in Requests :
        (Returned(r) /\ HasMismatch(r)) => rq[r].err = "ErrEventAgentIdMismatch"

\* C6: a batch holding a mismatching event fails: with ErrEventAgentIdMismatch,
\* raised at the first such event, unless the store read of an earlier event
\* failed, and then with that read's error.
C6_MismatchOrEarlierReadError ==
    \A r \in Requests :
        (Returned(r) /\ HasMismatch(r)) =>
            /\ rq[r].pc # "respond"
            /\ \/ /\ rq[r].err = "ErrEventAgentIdMismatch"
                  /\ rq[r].i = FirstMismatch(r)
               \/ /\ rq[r].readErr # "nil"
                  /\ rq[r].err = rq[r].readErr
                  /\ rq[r].i < FirstMismatch(r)

\* C6 witness: the mismatching event is the last of the batch, after a policy
\* candidate, and the request ended in the mismatch error.
C6_Witness ==
    /\ Done(1)
    /\ Len(Events(1)) >= 2
    /\ HasMismatch(1)
    /\ FirstMismatch(1) = Len(Events(1))
    /\ IsPolicyAck(Events(1)[1])
    /\ rq[1].err = "ErrEventAgentIdMismatch"
    /\ rq[1].httpError = StatusBadRequest

\* The event loop returned an error.
ClassificationFailed(r) ==
    rq[r].err = "ErrEventAgentIdMismatch" \/ rq[r].readErr # "nil"

\* C7: a request whose event loop returned an error has built no update, has
\* called no update, and the agent document is as the request read it.
C7_FailedBatchWritesNothing ==
    \A r \in Requests :
        ClassificationFailed(r) =>
            /\ rq[r].updates = <<>>
            /\ rq[r].calls = 0
            /\ nWrites = 0
            /\ Pair(agents[rq[r].agent.Id]) = ReadPair(r)

\* C7 witness: an advancing candidate precedes the event the loop failed on.
C7_Witness ==
    /\ Done(1)
    /\ ClassificationFailed(1)
    /\ rq[1].policyAcks # <<>>
    /\ \E k \in 1..(rq[1].i - 1) :
         LET a == parsePolicyAction(Events(1)[k].ActionId)
         IN  a.ok /\ <<a.revIdx, a.coordIdx>> \in Advancing(1)

\* The number of events whose resolution the loop has carried out.
Resolved(r) ==
    IF rq[r].pc \in {"idle", "auth", "body"} THEN 0
    ELSE IF rq[r].readErr # "nil" THEN rq[r].i
    ELSE rq[r].i - 1

\* The identifiers among the first n events that are no policy acknowledgment
\* and that the cache does not hold, in order.
RECURSIVE Misses(_, _)
Misses(evs, n) ==
    IF n = 0 THEN <<>>
    ELSE IF ~IsPolicyAck(evs[n]) /\ evs[n].ActionId \notin gCache
         THEN Append(Misses(evs, n - 1), evs[n].ActionId)
         ELSE Misses(evs, n - 1)

\* C8: the store reads of a request are exactly the cache misses among the
\* events resolved so far, one read each, and a read error ends the request
\* with that very error.
C8_ReadsAreMisses ==
    \A r \in Requests :
        /\ rq[r].reads = Misses(Events(r), Resolved(r))
        /\ rq[r].readErr # "nil" =>
             /\ rq[r].err = rq[r].readErr
             /\ rq[r].pc \in {"handler", "done"}
             /\ rq[r].reads[Len(rq[r].reads)] = Events(r)[rq[r].i].ActionId

\* C8 witness: a cache hit and a cache miss in one batch, one read.
C8_Witness ==
    /\ Done(1)
    /\ Len(Events(1)) = 2
    /\ Events(1)[1].ActionId \in gCache
    /\ Events(1)[2].ActionId = StoredId
    /\ rq[1].probes = <<CachedId, StoredId>>
    /\ rq[1].reads = <<StoredId>>
    /\ rq[1].err = "nil"

\* C9: a failed update is returned as the request's error, was called once,
\* makes handleAcks answer 400, and leaves the stored pair as the request read
\* it.
C9_FailedUpdate ==
    \A r \in Requests :
        rq[r].updErr # "nil" =>
            /\ rq[r].err = rq[r].updErr
            /\ rq[r].calls = 1
            /\ rq[r].pc \in {"handler", "done"}
            /\ rq[r].response = ""
            /\ Done(r) => rq[r].httpError = StatusBadRequest
            /\ Pair(agents[rq[r].agent.Id]) = ReadPair(r)
            /\ nWrites = 0

\* C9 witness: an update was due, the store failed it, the request is over.
C9_Witness ==
    /\ Done(1)
    /\ Advancing(1) # {}
    /\ rq[1].updErr = "ErrStore"
    /\ rq[1].httpError = StatusBadRequest

\* C10 as claimed: a request that ended in context.Canceled logs no error and
\* sends no error reply.
C10_CancelNotReported ==
    \A r \in Requests :
        (Done(r) /\ rq[r].err = "Canceled") =>
            ~rq[r].logged /\ rq[r].httpError = 0

\* C10: a request that ended in context.Canceled logs no error, and handleAcks
\* still answers it with http.Error and status 400.
C10_CancelNotLogged ==
    \A r \in Requests :
        /\ (Done(r) /\ rq[r].err = "Canceled") =>
              ~rq[r].logged /\ rq[r].httpError = StatusBadRequest
        /\ (Done(r) /\ rq[r].err \notin {"nil", "Canceled"}) => rq[r].logged

\* C10 witness: the update returned context.Canceled.
C10_Witness ==
    /\ Done(1)
    /\ rq[1].cancelled
    /\ rq[1].updErr = "Canceled"
    /\ rq[1].err = "Canceled"

\* Every event of the batch is an ordinary action that the cache or the store
\* resolved, sent under the agent's own id or under none.
OnlyResolvedActions(r) ==
    /\ Len(Events(r)) > 0
    /\ \A k \in 1..Len(Events(r)) :
         /\ ~IsPolicyAck(Events(r)[k])
         /\ ~AgentIdMismatch(Events(r)[k], rq[r].agent)
    /\ rq[r].readErr = "nil"

\* C11: a batch of resolved ordinary actions (UPGRADE and UNENROLL among
\* them) makes _handleAckEvents return nil, groups the actions by type, and
\* builds and sends no update: the agent documents stay as they were.
C11_ActionAcksAreNoOp ==
    \A r \in Requests :
        (Returned(r) /\ OnlyResolvedActions(r)) =>
            /\ rq[r].err \in {"nil", "ErrWrite"}
            /\ rq[r].policyAcks = <<>>
            /\ rq[r].updates = <<>>
            /\ rq[r].calls = 0
            /\ nWrites = 0
            /\ \A a \in AgentIds : agents[a].UpdatedAt = 0
            /\ Pair(agents[rq[r].agent.Id]) = ReadPair(r)
            /\ Len(rq[r].m["UPGRADE"]) + Len(rq[r].m["UNENROLL"]) = Len(Events(r))

\* C11 witness: an UPGRADE and an UNENROLL acknowledgment, the fixed reply.
C11_Witness ==
    /\ Done(1)
    /\ OnlyResolvedActions(1)
    /\ rq[1].m["UPGRADE"] # <<>>
    /\ rq[1].m["UNENROLL"] # <<>>
    /\ rq[1].response = "acks"
    /\ rq[1].httpError = 0

\* ------------------------------------------------- the identifier parser
\* Most segments of an identifier handed to the parser.
MaxSegments == 5

\* The texts a segment is drawn from: empty, the tag, UUID texts, an unsigned
\* and a signed number, a bare sign (neither tag, UUID nor number).
SegmentTexts ==
    {<<>>, <<"policy">>, <<"P">>, <<"{P}">>, <<"1", "0">>, <<"-", "2">>, <<"+">>}

\* The segments written one after another with ":" between them.
RECURSIVE Join(_)
Join(segs) ==
    IF Len(segs) = 1 THEN segs[1]
    ELSE segs[1] \o <<":">> \o Join(Tail(segs))

ParseInputs == {Join(segs) : segs \in SeqsUpTo(SegmentTexts, MaxSegments) \ {<<>>}}

\* One call of the parser per behaviour, on any identifier.
InitParse ==
    /\ InitStore({<<0, 0>>})
    /\ request = [r \in Requests |-> NoInput]
    /\ \E a \in ParseInputs :
         rq = [r \in Requests |->
                 [pc |-> IF r = 1 THEN "parse" ELSE "idle",
                  actionId |-> a, action |-> NoPolicyAction]]

\* action, ok := parsePolicyAction(a)
Parse(r) ==
    /\ rq[r].pc = "parse"
    /\ rq' = [rq EXCEPT ![r].pc = "parsed",
                        ![r].action = parsePolicyAction(rq[r].actionId)]
    /\ UnchangedStore
    /\ UNCHANGED request

NextParse == \E r \in Requests : Parse(r)

SpecParse == InitParse /\ [][NextParse]_vars

\* What the identifier format says, read off the text without the parser:
\* the places of the separators, the text between two of them, the shape and
\* the value of a decimal integer.
Colons(s) == {k \in 1..Len(s) : s[k] = ":"}

NthColon(s, n) ==
    CHOOSE k \in Colons(s) : Cardinality({j \in Colons(s) : j < k}) = n - 1

Segment(s, n) ==
    LET lo == IF n = 1 THEN 0 ELSE NthColon(s, n - 1)
        hi == IF n = Cardinality(Colons(s)) + 1 THEN Len(s) + 1 ELSE NthColon(s, n)
    IN  SubSeq(s, lo + 1, hi - 1)

IsDecimalInteger(seg) ==
    \E d \in {1, 2} :
        /\ d = 2 => (Len(seg) >= 1 /\ seg[1] \in {"+", "-"})
        /\ d <= Len(seg)
        /\ \A k \in d..Len(seg) : seg[k] \in DigitSet

RECURSIVE Pow10(_)
Pow10(n) == IF n = 0 THEN 1 ELSE 10 * Pow10(n - 1)

RECURSIVE Magnitude(_, _)
Magnitude(seg, k) ==
    IF k > Len(seg) THEN 0
    ELSE (IF seg[k] \in DigitSet THEN DigitVal(seg[k]) * Pow10(Len(seg) - k) ELSE 0)
         + Magnitude(seg, k + 1)

IntegerValue(seg) ==
    IF seg[1] = "-" THEN 0 - Magnitude(seg, 1) ELSE Magnitude(seg, 1)

WellFormedPolicyId(s) ==
    /\ Cardinality(Colons(s)) = 3
    /\ Segment(s, 1) = <<"policy">>
    /\ Len(Segment(s, 2)) = 1 /\ Segment(s, 2)[1] \in ValidUUIDs
    /\ IsDecimalInteger(Segment(s, 3))
    /\ IsDecimalInteger(Segment(s, 4))

\* C12: parsePolicyAction answers ok exactly for "policy:<uuid>:<int>:<int>"
\* (four segments, the tag, a UUID text, two decimal integers) and then
\* returns the policy id text and the two integer values; on any other text
\* it returns the zero action with ok false, and it touches nothing else.
C12_ParseExactlyWellFormed ==
    \A r \in Requests :
        rq[r].pc = "parsed" =>
            LET s == rq[r].actionId
                res == rq[r].action
            IN  /\ res.ok <=> WellFormedPolicyId(s)
                /\ res.ok =>
                     /\ res.policyId = Segment(s, 2)
                     /\ res.revIdx = IntegerValue(Segment(s, 3))
                     /\ res.coordIdx = IntegerValue(Segment(s, 4))
                /\ ~res.ok => res = NoPolicyAction
                /\ nWrites = 0
                /\ \A a \in AgentIds : agents[a].UpdatedAt = 0

\* C12 witness: a braced UUID, a two-digit revision and a negative
\* coordinator index have been parsed.
C12_Witness ==
    /\ rq[1].pc = "parsed"
    /\ rq[1].action.ok
    /\ rq[1].action.policyId = <<"{P}">>
    /\ rq[1].action.revIdx = 10
    /\ rq[1].action.coordIdx = 0 - 2

\* ------------------------------------------------------- order of a batch
\* The loop of _handleAckEvents from the k-th event on, when the store answers
\* by its contents alone: whether it runs to the end, and the policy
\* acknowledgments it gathers.
RECURSIVE Classify(_, _, _, _)
Classify(agent, events, k, acks) ==
    IF k > Len(events) THEN [ok |-> TRUE, policyAcks |-> acks]
    ELSE LET kind == EventKind(events[k], agent)
             id == events[k].ActionId
         IN  CASE kind = "mismatch" -> [ok |-> FALSE, policyAcks |-> acks]
               [] kind = "policy" -> Classify(agent, events, k + 1, Append(acks, id))
               [] OTHER ->
                    IF GetActionOk(id) \/ id \in SavedActions
                    THEN Classify(agent, events, k + 1, acks)
                    ELSE [ok |-> FALSE, policyAcks |-> acks]

\* What _handleAckEvents does with a batch for an agent snapshot: whether it
\* gets through the batch and the pair of the update it builds (<<>>: none).
Outcome(agent, events) ==
    LET c == Classify(agent, events, 1, <<>>) IN
    IF ~c.ok THEN [ok |-> FALSE, write |-> <<>>]
    ELSE LET w == PickWinner(agent, c.policyAcks) IN
         [ok |-> TRUE,
          write |-> IF c.policyAcks # <<>> /\ w.found
                    THEN <<w.currRev, w.currCoord>> ELSE <<>>]

Orderings(n) ==
    {p \in [1..n -> 1..n] : \A j, k \in 1..n : p[j] = p[k] => j = k}

Permuted(events, p) == [k \in 1..Len(events) |-> events[p[k]]]

\* C13: for the snapshot a request read, every reordering of its batch has
\* the same success-or-failure outcome and, on success, builds the same
\* update or none; and the request itself, when no store call failed for a
\* reason other than the store's contents, did what that outcome says.
C13_OrderInsignificant ==
    \A r \in Requests :
        (Done(r) /\ Decoded(r)) =>
            LET o == Outcome(rq[r].agent, Events(r)) IN
            /\ \A p \in Orderings(Len(Events(r))) :
                 LET q == Outcome(rq[r].agent, Permuted(Events(r), p)) IN
                 /\ q.ok = o.ok
                 /\ o.ok => q.write = o.write
            /\ rq[r].readErr \in {"nil", "ErrNotFound"} =>
                 /\ Classified(r) <=> o.ok
                 /\ Classified(r) =>
                      o.write = IF rq[r].updates = <<>> THEN <<>> ELSE Written(r)

\* C13 witness: a batch of two different advancing candidates, the larger one
\* first, has been handled and the larger pair written.
C13_Witness ==
    /\ Done(1) /\ Applied(1)
    /\ Len(Events(1)) = 2
    /\ Cardinality(Advancing(1)) = 2
    /\ parsePolicyAction(Events(1)[1].ActionId).revIdx
         > parsePolicyAction(Events(1)[2].ActionId).revIdx
    /\ Pair(agents["a1"]) = Written(1)
    /\ Written(1) = <<parsePolicyAction(Events(1)[1].ActionId).revIdx,
                      parsePolicyAction(Events(1)[1].ActionId).coordIdx>>

\* The identifiers beginning with "policy:" among the first n events, in order.
RECURSIVE PolicyPrefixed(_, _)
PolicyPrefixed(evs, n) ==
    IF n = 0 THEN <<>>
    ELSE IF HasPrefix(evs[n].ActionId, <<"policy", ":">>)
         THEN Append(PolicyPrefixed(evs, n - 1), evs[n].ActionId)
         ELSE PolicyPrefixed(evs, n - 1)

\* C14: no identifier beginning with "policy:" is ever looked up in the cache
\* or read from the store; the policy acknowledgment list holds exactly those
\* identifiers of the events the loop has passed, in order, whether they parse
\* or not.
C14_PolicyAcksNotResolved ==
    \A r \in Requests :
        /\ \A k \in 1..Len(rq[r].probes) : ~HasPrefix(rq[r].probes[k], <<"policy", ":">>)
        /\ \A k \in 1..Len(rq[r].reads) : ~HasPrefix(rq[r].reads[k], <<"policy", ":">>)
        /\ rq[r].policyAcks = PolicyPrefixed(Events(r), rq[r].i - 1)

\* C14 witness: a batch of an identifier that does not parse and one that
\* does went through the loop without any lookup.
C14_Witness ==
    /\ Classified(1)
    /\ Len(rq[1].policyAcks) = 2
    /\ \E k \in 1..2 : ~parsePolicyAction(rq[1].policyAcks[k]).ok
    /\ \E k \in 1..2 : parsePolicyAction(rq[1].policyAcks[k]).ok
    /\ rq[1].probes = <<>> /\ rq[1].reads = <<>>

\* The acknowledgments of the list that parse, in order.
RECURSIVE Parseable(_)
Parseable(acks) ==
    IF acks = <<>> THEN <<>>
    ELSE IF parsePolicyAction(Head(acks)).ok
         THEN <<Head(acks)>> \o Parseable(Tail(acks))
         ELSE Parseable(Tail(acks))

\* C15: once the loop is through the batch, the request fails only if the
\* update call fails; the candidate the reconciler selected is the one it
\* selects from the acknowledgments that parse; and a batch whose policy
\* acknowledgments all fail to parse builds no update and leaves the pair.
C15_UnparseableIgnored ==
    \A r \in Requests :
        (Classified(r) /\ Returned(r)) =>
            LET w == PickWinner(rq[r].agent, Parseable(rq[r].policyAcks)) IN
            /\ rq[r].updErr = "nil" => rq[r].err \in {"nil", "ErrWrite"}
            /\ rq[r].policyAcks # <<>> =>
                 /\ rq[r].found = w.found
                 /\ rq[r].currRev = w.currRev
                 /\ rq[r].currCoord = w.currCoord
            /\ (rq[r].policyAcks # <<>> /\ Parseable(rq[r].policyAcks) = <<>>) =>
                 /\ rq[r].updates = <<>>
                 /\ rq[r].calls = 0
                 /\ rq[r].err \in {"nil", "ErrWrite"}
                 /\ Pair(agents[rq[r].agent.Id]) = ReadPair(r)

\* C15 witness: an identifier that does not parse rode along with an
\* advancing candidate, whose pair was written.
C15_Witness ==
    /\ Done(1) /\ Applied(1)
    /\ rq[1].response = "acks"
    /\ Len(rq[1].policyAcks) = 2
    /\ Len(Parseable(rq[1].policyAcks)) = 1
    /\ Pair(agents["a1"]) = LexMax(Advancing(1))

\* C16: under any interleaving, a step that changes the stored pair of an
\* agent sets it to the pair of one single candidate that a request for that
\* agent acknowledged with the agent's policy id; so the pair is at every
\* moment the initial one or such a pair, never a mix of two candidates.
C16_PairOfOneCandidate ==
    [][\A a \in AgentIds :
         \/ Pair(agents'[a]) = Pair(agents[a])
         \/ \E r \in Requests :
              /\ request[r].id = a
              /\ rq[r].agent.Id = a
              /\ Pair(agents'[a]) \in Eligible(r)]_vars

\* C16 witness: two racing requests wrote candidates that differ in both
\* indexes; the stored pair is the one written last.
C16_Witness ==
    /\ request[1].id = request[2].id
    /\ Applied(1) /\ Applied(2)
    /\ rq[1].readSeq = 0 /\ rq[2].readSeq = 0
    /\ Written(1)[1] # Written(2)[1]
    /\ Written(1)[2] # Written(2)[2]
    /\ lastWriter \in Requests
    /\ Pair(agents[request[1].id]) = Written(lastWriter)

\* C17: a step that changes an agent document is the update call of a
\* request made for that very agent; it leaves the policy id of the document
\* and every other agent document as they were (the revision index, the
\* coordinator index and the update time are all it may change).
C17_WritesOwnAgentOnly ==
    [][\A a \in AgentIds :
         agents'[a] # agents[a] =>
            /\ \E r \in Requests :
                 /\ request[r].id = a
                 /\ rq[r].pc = "update"
                 /\ rq'[r].calls = rq[r].calls + 1
            /\ agents'[a].PolicyId = agents[a].PolicyId
            /\ DOMAIN agents' = AgentIds
            /\ \A b \in AgentIds \ {a} : agents'[b] = agents[b]]_vars

\* C17 witness: a request for a1 and a request for a2 both wrote; each
\* document holds the pair of its own request and its own policy id.
C17_Witness ==
    /\ request[1].id = "a1" /\ request[2].id = "a2"
    /\ Applied(1) /\ Applied(2)
    /\ Pair(agents["a1"]) = Written(1)
    /\ Pair(agents["a2"]) = Written(2)
    /\ Written(1) # Written(2)
    /\ agents["a1"].PolicyId = <<"P">>
    /\ agents["a2"].PolicyId = <<"Q">>

\* ------------------------------------------------- one request after another
\* r2 read the agent record after the write of r1, if r1 wrote, had been
\* applied, and r1 read it before any write.
Sequential(r1, r2) ==
    /\ r1 # r2
    /\ request[r1].id = request[r2].id
    /\ Decoded(r1) /\ Decoded(r2)
    /\ Done(r1) /\ Done(r2)
    /\ rq[r1].readSeq = 0
    /\ rq[r1].calls > 0 => rq[r2].readSeq >= 1

\* No call to the store made for the request returned an error.
StoreCallsSucceeded(r) == rq[r].readErr = "nil" /\ rq[r].updErr = "nil"

\* C18 as claimed: after two requests handled one after the other, all store
\* calls succeeding, the stored pair is the maximum of the initial pair and
\* of the eligible candidates of both batches.
C18_SequentialMaxOfAll ==
    \A r1 \in Requests, r2 \in Requests :
        (/\ Sequential(r1, r2)
         /\ StoreCallsSucceeded(r1) /\ StoreCallsSucceeded(r2))
        => Pair(agents[request[r1].id])
             = LexMax({ReadPair(r1)} \cup Eligible(r1) \cup Eligible(r2))

\* C18: after two requests handled one after the other, all store calls
\* succeeding and both batches free of foreign agent ids, the stored pair is
\* the maximum of the initial pair and of the eligible candidates of both
\* batches.
C18_SequentialMaxOfAccepted ==
    \A r1 \in Requests, r2 \in Requests :
        (/\ Sequential(r1, r2)
         /\ StoreCallsSucceeded(r1) /\ StoreCallsSucceeded(r2)
         /\ ~HasMismatch(r1) /\ ~HasMismatch(r2))
        => Pair(agents[request[r1].id])
             = LexMax({ReadPair(r1)} \cup Eligible(r1) \cup Eligible(r2))

\* C18 witness: the second request read the pair the first one had written
\* and moved the agent on to the larger candidate of its own batch.
C18_Witness ==
    /\ Sequential(1, 2)
    /\ Applied(1) /\ Applied(2)
    /\ ReadPair(2) = Written(1)
    /\ PairLess(ReadPair(1), Written(1))
    /\ PairLess(Written(1), Written(2))
    /\ Pair(agents[request[1].id]) = Written(2)

\* C19: when a request for a batch has succeeded and a second request with
\* the same batch for the same agent, handled after it, read the agent record
\* with the write of the first (if any) applied, the second, its store reads
\* succeeding, gets through the batch, builds and sends no update, returns no
\* error from the reconciliation and leaves the stored pair as it read it.
C19_ResubmissionIsNoOp ==
    \A r1 \in Requests, r2 \in Requests :
        (/\ Sequential(r1, r2)
         /\ Events(r1) = Events(r2)
         /\ Classified(r1) /\ rq[r1].err = "nil"
         /\ rq[r2].readErr = "nil")
        => /\ Classified(r2)
           /\ rq[r2].updates = <<>>
           /\ rq[r2].calls = 0
           /\ rq[r2].err \in {"nil", "ErrWrite"}
           /\ Pair(agents[request[r2].id]) = ReadPair(r2)

\* C19 witness: the first request wrote its candidate; the second, with the
\* same batch, read that pair and answered without writing.
C19_Witness ==
    /\ request[1].id = request[2].id
    /\ Events(1) = Events(2)
    /\ Done(1) /\ Done(2)
    /\ Applied(1)
    /\ rq[1].response = "acks" /\ rq[2].response = "acks"
    /\ rq[2].readSeq = 1
    /\ ReadPair(2) = Written(1)
    /\ rq[2].calls = 0
    /\ nWrites = 1
    /\ Pair(agents[request[1].id]) = Written(1)

====
